---------------------------- MODULE Spec2Model ----------------------------
(***************************************************************************)
(* Half-edge cage (cc_Mesh) and subdivision hierarchy (cc_Subd) of         *)
(* src/cuda-rewrite/Mesh.cpp: the counting formulas, the allocation and    *)
(* release of the flat arrays, the per-level accessors and the             *)
(* edge-to-halfedge resolver.                                              *)
(***************************************************************************)
EXTENDS Integers, Sequences, FiniteSets, TLC

VARIABLES
    cage,       \* counting: the cage's five base counts (cc_Mesh fields)
    reached,    \* counting: the depth reached, one subdivision step at a time
    level,      \* counting: element counts of the level reached step by step
    stored,     \* counting: elements of levels 1..depth added up step by step
    ret,        \* values returned by the last evaluation or accessor call
    blocks,     \* lifecycle: every block malloc has returned, with its history
    meshes,     \* lifecycle: the cc_Mesh structs, by handle
    subds,      \* lifecycle: the cc_Subd structs, by handle
    released,   \* lifecycle: the handles passed to ccm_Release / ccs_Release
    zeroNull,   \* lifecycle: whether malloc(0) returns NULL on this platform
    mem,        \* topology: what has been written to each block, by index
    built       \* topology: number of levels of the subd written so far

countVars == <<cage, reached, level, stored>>
lifeVars == <<blocks, meshes, subds, released, zeroNull>>
topoVars == <<mem, built>>

vars ==
    <<cage, reached, level, stored, ret, blocks, meshes, subds, released,
      zeroNull, mem, built>>

(***************************************************************************)
(* Bounds of the model.                                                    *)
(***************************************************************************)
MaxDepth == 4
MaxCount == 2
MaxHalfedges == 4
MaxHandles == 3
MaxSubdDepth == 2
MaxTopoDepth == 3
MaxWide == 8
WideUnit == 50000000

(***************************************************************************)
(* int32_t / uint32_t arithmetic.                                          *)
(***************************************************************************)
\* largest and smallest int32_t
INT32_MAX == 2147483647
INT32_MIN == -INT32_MAX - 1

Pow2(n) == 2 ^ n

\* a + b on int32_t, wrapping modulo 2^32
Add32(a, b) ==
    IF a >= 0 /\ b >= 0 /\ a > INT32_MAX - b
        THEN ((a - INT32_MAX) + (b - INT32_MAX)) - 2
    ELSE IF a < 0 /\ b < 0 /\ a < INT32_MIN - b
        THEN ((a + INT32_MAX) + (b + INT32_MAX)) + 2
    ELSE a + b

\* -a on int32_t
Neg32(a) == IF a = INT32_MIN THEN INT32_MIN ELSE -a

Sub32(a, b) == IF b = INT32_MIN THEN Add32(Add32(a, INT32_MAX), 1) ELSE Add32(a, -b)

\* a * b on int32_t, wrapping modulo 2^32: the operands are cut into
\* 16-bit halves (b's low half into bytes) so that no partial product
\* leaves the range of the integers at hand
Mul32(a, b) ==
    LET al == a % 65536
        ah == (a \div 65536) % 65536
        bl == b % 65536
        bh == (b \div 65536) % 65536
        bll == bl % 256
        blh == bl \div 256
        x == al * bll + ((al * blh) % 256) * 256
        lo == x % 65536
        carry == (x \div 65536) + ((al * blh) \div 256)
        ahbl == (ah * bll + ((ah * blh) % 256) * 256) % 65536
        albh == ((al % 256) * bh + (((al \div 256) * bh) % 256) * 256) % 65536
        hi == (carry + ahbl + albh) % 65536
    IN  IF hi >= 32768 THEN (hi - 65536) * 65536 + lo ELSE hi * 65536 + lo

\* a << n on int32_t, 0 <= n < 32
Shl32(a, n) ==
    IF n = 31 THEN (IF a % 2 = 1 THEN INT32_MIN ELSE 0) ELSE Mul32(a, Pow2(n))

\* a >> n on int32_t (arithmetic shift), 0 <= n < 31
Shr32(a, n) == a \div Pow2(n)

\* a / b on int32_t, b > 0: C division truncates toward zero
Div32(a, b) ==
    IF a >= 0 THEN a \div b
    ELSE LET m == -(a + 1)
         IN  -((m \div b) + (IF m % b = b - 1 THEN 1 ELSE 0))

\* ~(0xFFFFFFFF << n), 0 <= n < 32: the n low bits set
LowBits(n) == IF n = 31 THEN INT32_MAX ELSE Pow2(n) - 1

cc__Max(a, b) == IF a > b THEN a ELSE b

(***************************************************************************)
(* Cage counts, Mesh.cpp 8-61.                                             *)
(***************************************************************************)
ccm_FaceCount(mesh) == mesh.faceCount
ccm_EdgeCount(mesh) == mesh.edgeCount
ccm_CreaseCount(mesh) == ccm_EdgeCount(mesh)
ccm_HalfedgeCount(mesh) == mesh.halfedgeCount
ccm_VertexCount(mesh) == mesh.vertexCount
ccm_UvCount(mesh) == mesh.uvCount

(***************************************************************************)
(* Per-level counts, Mesh.cpp 74-194.                                      *)
(***************************************************************************)
ccm_FaceCountAtDepth_Fast(c, d) ==
    LET H0 == ccm_HalfedgeCount(c)
    IN  Shl32(H0, Shl32(d - 1, 1))

ccm_FaceCountAtDepth(c, d) ==
    IF d = 0 THEN ccm_FaceCount(c) ELSE ccm_FaceCountAtDepth_Fast(c, d)

\* mutant: the mask (2^d - 1) taken one bit short
ccm_EdgeCountAtDepth_Fast_ShortMask(c, d) ==
    LET E0 == ccm_EdgeCount(c)
        H0 == ccm_HalfedgeCount(c)
        tmp == LowBits(d - 1)
    IN  Shl32(Add32(Shl32(E0, 1), Mul32(tmp, H0)), d - 1)

ccm_EdgeCountAtDepth_Fast(c, d) ==
    LET E0 == ccm_EdgeCount(c)
        H0 == ccm_HalfedgeCount(c)
        tmp == LowBits(d)
    IN  Shl32(Add32(Shl32(E0, 1), Mul32(tmp, H0)), d - 1)

ccm_EdgeCountAtDepth(c, d) ==
    IF d = 0 THEN ccm_EdgeCount(c) ELSE ccm_EdgeCountAtDepth_Fast(c, d)

\* mutant: the cage count shifted by depth, not by twice the depth
ccm_HalfedgeCountAtDepth_SingleShift(c, d) ==
    LET H0 == ccm_HalfedgeCount(c)
    IN  Shl32(H0, d)

ccm_HalfedgeCountAtDepth(c, d) ==
    LET H0 == ccm_HalfedgeCount(c)
    IN  Shl32(H0, Shl32(d, 1))

\* mutant: creases multiplied by 4 per step, like halfedges
ccm_CreaseCountAtDepth_Times4(c, d) ==
    LET C0 == ccm_CreaseCount(c)
    IN  Shl32(C0, Shl32(d, 1))

ccm_CreaseCountAtDepth(c, d) ==
    LET C0 == ccm_CreaseCount(c)
    IN  Shl32(C0, d)

ccm_VertexCountAtDepth_Fast(c, d) ==
    LET V0 == ccm_VertexCount(c)
        F0 == ccm_FaceCount(c)
        E0 == ccm_EdgeCount(c)
        H0 == ccm_HalfedgeCount(c)
        F1 == H0
        E1 == Add32(Mul32(2, E0), H0)
        V1 == Add32(Add32(V0, E0), F0)
        tmp == LowBits(d - 1)
    IN  Add32(V1, Mul32(tmp, Add32(E1, Mul32(tmp, F1))))

ccm_VertexCountAtDepth(c, d) ==
    IF d = 0 THEN ccm_VertexCount(c) ELSE ccm_VertexCountAtDepth_Fast(c, d)

(***************************************************************************)
(* Cumulative counts, Mesh.cpp 410-528.                                    *)
(***************************************************************************)
\* mutant: the sum starts at level 0, H0 (4^(D+1) - 1) / 3
ccs_CumulativeHalfedgeCountAtDepth_FromCage(c, maxDepth) ==
    LET D == maxDepth
        H0 == ccm_HalfedgeCount(c)
        tmp == LowBits(Shl32(D + 1, 1))
    IN  Div32(Mul32(H0, tmp), 3)

ccs_CumulativeHalfedgeCountAtDepth(c, maxDepth) ==
    LET D == maxDepth
        H0 == ccm_HalfedgeCount(c)
        H1 == Shl32(H0, 2)
        tmp == LowBits(Shl32(D, 1))
    IN  Div32(Mul32(H1, tmp), 3)

ccs_CumulativeFaceCountAtDepth(c, d) ==
    Shr32(ccs_CumulativeHalfedgeCountAtDepth(c, d), 2)

ccs_CumulativeEdgeCountAtDepth(c, d) ==
    LET H0 == ccm_HalfedgeCount(c)
        E0 == ccm_EdgeCount(c)
        H1 == Shl32(H0, 2)
        E1 == Add32(Shl32(E0, 1), H0)
        D == d
        A == LowBits(D)
    IN  Div32(Mul32(A, Sub32(Add32(Mul32(6, E1), Mul32(A, H1)), H1)), 6)

\* mutant: C0 used where the level-1 count C1 = 2 C0 belongs
ccs_CumulativeCreaseCountAtDepth_NoShift(c, maxDepth) ==
    LET D == maxDepth
        C0 == ccm_CreaseCount(c)
        tmp == LowBits(D)
    IN  Mul32(C0, tmp)

ccs_CumulativeCreaseCountAtDepth(c, maxDepth) ==
    LET D == maxDepth
        C0 == ccm_CreaseCount(c)
        C1 == Shl32(C0, 1)
        tmp == LowBits(D)
    IN  Mul32(C1, tmp)

ccs_CumulativeVertexCountAtDepth(c, d) ==
    LET V0 == ccm_VertexCount(c)
        F0 == ccm_FaceCount(c)
        E0 == ccm_EdgeCount(c)
        H0 == ccm_HalfedgeCount(c)
        F1 == H0
        E1 == Add32(Mul32(2, E0), H0)
        V1 == Add32(Add32(V0, E0), F0)
        D == d
        A == LowBits(D)
        \* unsigned division, then stored in an int32_t
        B == LowBits(Shl32(D, 1)) \div 3
    IN  Add32(Add32(Mul32(A, Sub32(E1, Shl32(F1, 1))), Mul32(B, F1)),
              Mul32(D, Add32(Sub32(F1, E1), V1)))

(***************************************************************************)
(* One subdivision step on the element counts, as the comments of the      *)
(* counting functions state it: F' = H, E' = 2E + H, H' = 4H, C' = 2C,     *)
(* V' = V + E + F.                                                         *)
(***************************************************************************)
BaseCounts(c) ==
    [V |-> ccm_VertexCount(c), E |-> ccm_EdgeCount(c),
     H |-> ccm_HalfedgeCount(c), F |-> ccm_FaceCount(c),
     C |-> ccm_CreaseCount(c)]

SubdivideCounts(n) ==
    [V |-> n.V + n.E + n.F, E |-> 2 * n.E + n.H, H |-> 4 * n.H,
     F |-> n.H, C |-> 2 * n.C]

NoCounts == [V |-> 0, E |-> 0, H |-> 0, F |-> 0, C |-> 0]

AddCounts(a, b) ==
    [V |-> a.V + b.V, E |-> a.E + b.E, H |-> a.H + b.H,
     F |-> a.F + b.F, C |-> a.C + b.C]

\* the five per-level functions evaluated at depth d
CountsAtDepth(c, d) ==
    [V |-> ccm_VertexCountAtDepth(c, d), E |-> ccm_EdgeCountAtDepth(c, d),
     H |-> ccm_HalfedgeCountAtDepth(c, d), F |-> ccm_FaceCountAtDepth(c, d),
     C |-> ccm_CreaseCountAtDepth(c, d)]

\* the five cumulative functions evaluated at depth d
CumulativeCountsAtDepth(c, d) ==
    [V |-> ccs_CumulativeVertexCountAtDepth(c, d),
     E |-> ccs_CumulativeEdgeCountAtDepth(c, d),
     H |-> ccs_CumulativeHalfedgeCountAtDepth(c, d),
     F |-> ccs_CumulativeFaceCountAtDepth(c, d),
     C |-> ccs_CumulativeCreaseCountAtDepth(c, d)]

(***************************************************************************)
(* Counting specification: a cage with arbitrary base counts is            *)
(* subdivided step by step and the counting formulas are evaluated at the  *)
(* depth reached.                                                          *)
(***************************************************************************)
Cages ==
    [vertexCount : 0..MaxCount, uvCount : {0}, halfedgeCount : 0..MaxHalfedges,
     edgeCount : 0..MaxCount + 1, faceCount : 0..MaxCount]

\* the cube: 8 vertices, 24 halfedges, 12 edges, 6 faces, no uvs
Cube ==
    [vertexCount |-> 8, uvCount |-> 0, halfedgeCount |-> 24, edgeCount |-> 12,
     faceCount |-> 6]

NoRet == [op |-> "none"]

InitCount ==
    /\ cage \in Cages \cup {Cube}
    /\ reached = 0
    /\ level = BaseCounts(cage)
    /\ stored = NoCounts
    /\ ret = NoRet
    /\ blocks = <<>> /\ meshes = <<>> /\ subds = <<>>
    /\ released = {} /\ zeroNull = FALSE
    /\ mem = <<>> /\ built = 0

\* one subdivision step: the next level's counts, added to what is stored
Subdivide ==
    /\ reached < MaxDepth
    /\ reached' = reached + 1
    /\ level' = SubdivideCounts(level)
    /\ stored' = AddCounts(stored, SubdivideCounts(level))
    /\ ret' = NoRet
    /\ UNCHANGED <<cage, lifeVars, topoVars>>

\* the caller evaluates the per-level and the cumulative functions
EvalCounts ==
    /\ ret = NoRet
    /\ ret' = [op |-> "counts", depth |-> reached,
               at |-> CountsAtDepth(cage, reached),
               cumulative |-> CumulativeCountsAtDepth(cage, reached)]
    /\ UNCHANGED <<countVars, lifeVars, topoVars>>

NextCount == Subdivide \/ EvalCounts

SpecCount == InitCount /\ [][NextCount]_vars

(***************************************************************************)
(* Counting specification for large cages: the base counts are multiples   *)
(* of WideUnit, and a subdivision step is taken only while the counts of   *)
(* the next level and the sums over the levels are below 2^31, so that     *)
(* level and stored always hold the true values.                           *)
(***************************************************************************)
WideCages ==
    [vertexCount : {0, WideUnit}, uvCount : {0},
     halfedgeCount : {k * WideUnit : k \in 0..MaxWide},
     edgeCount : {k * WideUnit : k \in 0..MaxWide},
     faceCount : {0, WideUnit}]

\* the counts of the next level, added to the sums so far, stay below 2^31
FitsNext(n, sum) ==
    /\ n.H <= INT32_MAX \div 4
    /\ n.C <= INT32_MAX \div 2
    /\ n.E <= (INT32_MAX - n.H) \div 2
    /\ n.V <= (INT32_MAX - n.E) - n.F
    /\ sum.H <= INT32_MAX - 4 * n.H
    /\ sum.C <= INT32_MAX - 2 * n.C
    /\ sum.E <= INT32_MAX - (2 * n.E + n.H)
    /\ sum.V <= INT32_MAX - (n.V + n.E + n.F)
    /\ sum.F <= INT32_MAX - n.H

InitWide ==
    /\ cage \in WideCages
    /\ reached = 0
    /\ level = BaseCounts(cage)
    /\ stored = NoCounts
    /\ ret = NoRet
    /\ blocks = <<>> /\ meshes = <<>> /\ subds = <<>>
    /\ released = {} /\ zeroNull = FALSE
    /\ mem = <<>> /\ built = 0

SubdivideWide == FitsNext(level, stored) /\ Subdivide

NextWide == SubdivideWide \/ EvalCounts

SpecWide == InitWide /\ [][NextWide]_vars


(***************************************************************************)
(* The heap: malloc and free.  A block keeps its history: who allocated    *)
(* it, for which member, how often it was passed to free and by whom.      *)
(***************************************************************************)
NULL == 0

\* malloc(n * sizeof(T)) called for `owner`: the heap and the pointer returned.
\* malloc(0) returns NULL or a block of its own, as the platform has it.
Malloc(bs, elems, owner, member) ==
    IF elems = 0 /\ zeroNull
        THEN [blocks |-> bs, ptr |-> NULL]
        ELSE [blocks |-> Append(bs, [elems |-> elems, owner |-> owner,
                                     member |-> member, frees |-> 0,
                                     freedBy |-> NULL]),
              ptr |-> Len(bs) + 1]

\* free(p) called by the release of `by`; free(NULL) does nothing
Free(bs, p, by) ==
    IF p = NULL THEN bs
    ELSE [bs EXCEPT ![p].frees = @ + 1, ![p].freedBy = by]

RECURSIVE FreeAll(_, _, _)
FreeAll(bs, ptrs, by) ==
    IF ptrs = <<>> THEN bs
    ELSE FreeAll(Free(bs, Head(ptrs), by), Tail(ptrs), by)

Live(b) == blocks[b].frees = 0

(***************************************************************************)
(* ccm_Create / ccm_Release, Mesh.cpp 358-403.                             *)
(***************************************************************************)
MeshArrays ==
    <<"vertexToHalfedgeIDs", "edgeToHalfedgeIDs", "faceToHalfedgeIDs",
      "halfedges", "creases", "vertexPoints", "uvs">>

\* the struct is allocated first, then the arrays in the order of the code
ccm_Create(vertexCount, uvCount, halfedgeCount, edgeCount, faceCount) ==
    LET m0 == Malloc(blocks, 1, Len(blocks) + 1, "mesh")
        mesh == m0.ptr
        m1 == Malloc(m0.blocks, vertexCount, mesh, "vertexToHalfedgeIDs")
        m2 == Malloc(m1.blocks, edgeCount, mesh, "edgeToHalfedgeIDs")
        m3 == Malloc(m2.blocks, faceCount, mesh, "faceToHalfedgeIDs")
        m4 == Malloc(m3.blocks, halfedgeCount, mesh, "halfedges")
        m5 == Malloc(m4.blocks, edgeCount, mesh, "creases")
        m6 == Malloc(m5.blocks, vertexCount, mesh, "vertexPoints")
        m7 == Malloc(m6.blocks, uvCount, mesh, "uvs")
    IN  /\ blocks' = m7.blocks
        /\ meshes' = [h \in DOMAIN meshes \cup {mesh} |->
              IF h = mesh
                  THEN [vertexCount |-> vertexCount, uvCount |-> uvCount,
                        halfedgeCount |-> halfedgeCount,
                        edgeCount |-> edgeCount, faceCount |-> faceCount,
                        vertexToHalfedgeIDs |-> m1.ptr,
                        edgeToHalfedgeIDs |-> m2.ptr,
                        faceToHalfedgeIDs |-> m3.ptr,
                        halfedges |-> m4.ptr, creases |-> m5.ptr,
                        vertexPoints |-> m6.ptr, uvs |-> m7.ptr]
                  ELSE meshes[h]]
        /\ UNCHANGED <<subds, released, zeroNull>>

\* mutant: the uvs array is not freed
ccm_Release_KeepUvs(mesh) ==
    LET m == meshes[mesh]
    IN  /\ blocks' = FreeAll(blocks,
              <<m.vertexToHalfedgeIDs, m.faceToHalfedgeIDs,
                m.edgeToHalfedgeIDs, m.halfedges, m.creases,
                m.vertexPoints, mesh>>, mesh)
        /\ released' = released \cup {mesh}
        /\ UNCHANGED <<meshes, subds, zeroNull>>

ccm_Release(mesh) ==
    LET m == meshes[mesh]
    IN  /\ blocks' = FreeAll(blocks,
              <<m.vertexToHalfedgeIDs, m.faceToHalfedgeIDs,
                m.edgeToHalfedgeIDs, m.halfedges, m.creases,
                m.vertexPoints, m.uvs, mesh>>, mesh)
        /\ released' = released \cup {mesh}
        /\ UNCHANGED <<meshes, subds, zeroNull>>

(***************************************************************************)
(* ccs_Create / ccs_Release, Mesh.cpp 545-575.                             *)
(***************************************************************************)
ccs_MaxDepth(subd) == subd.maxDepth

ccs_Create(c, maxDepth) ==
    LET halfedgeCount == ccs_CumulativeHalfedgeCountAtDepth(meshes[c], maxDepth)
        creaseCount == ccs_CumulativeCreaseCountAtDepth(meshes[c], maxDepth)
        vertexCount == ccs_CumulativeVertexCountAtDepth(meshes[c], maxDepth)
        m0 == Malloc(blocks, 1, Len(blocks) + 1, "subd")
        subd == m0.ptr
        m1 == Malloc(m0.blocks, halfedgeCount, subd, "halfedges")
        m2 == Malloc(m1.blocks, creaseCount, subd, "creases")
        m3 == Malloc(m2.blocks, vertexCount, subd, "vertexPoints")
    IN  /\ blocks' = m3.blocks
        /\ subds' = [h \in DOMAIN subds \cup {subd} |->
              IF h = subd
                  THEN [maxDepth |-> maxDepth, halfedges |-> m1.ptr,
                        creases |-> m2.ptr, vertexPoints |-> m3.ptr,
                        cage |-> c]
                  ELSE subds[h]]
        /\ UNCHANGED <<meshes, released, zeroNull>>

\* mutant: the release of a subd also releases the cage it borrows
ccs_Release_WithCage(subd) ==
    LET s == subds[subd]
        m == meshes[s.cage]
    IN  /\ blocks' = FreeAll(blocks,
              <<s.halfedges, s.creases, s.vertexPoints, subd,
                m.vertexToHalfedgeIDs, m.faceToHalfedgeIDs,
                m.edgeToHalfedgeIDs, m.halfedges, m.creases,
                m.vertexPoints, m.uvs, s.cage>>, subd)
        /\ released' = released \cup {subd}
        /\ UNCHANGED <<meshes, subds, zeroNull>>

ccs_Release(subd) ==
    LET s == subds[subd]
    IN  /\ blocks' = FreeAll(blocks,
              <<s.halfedges, s.creases, s.vertexPoints, subd>>, subd)
        /\ released' = released \cup {subd}
        /\ UNCHANGED <<meshes, subds, zeroNull>>

(***************************************************************************)
(* Lifecycle specification: a caller creates cages and subds and releases  *)
(* each handle at most once, a subd before the cage it borrows.            *)
(***************************************************************************)
\* base counts (vertex, uv, halfedge, edge, face) of the cages created
LifeCages ==
    { <<4, 0, 4, 4, 1>>, <<3, 3, 3, 3, 1>>, <<0, 0, 0, 0, 0>> }

InitLife ==
    /\ blocks = <<>> /\ meshes = <<>> /\ subds = <<>> /\ released = {}
    /\ zeroNull \in BOOLEAN
    /\ cage = 0 /\ reached = 0 /\ level = NoCounts /\ stored = NoCounts
    /\ ret = NoRet
    /\ mem = <<>> /\ built = 0

CreateMesh ==
    /\ Cardinality(DOMAIN meshes) + Cardinality(DOMAIN subds) < MaxHandles
    /\ \E n \in LifeCages : ccm_Create(n[1], n[2], n[3], n[4], n[5])
    /\ UNCHANGED <<countVars, ret, topoVars>>

ReleaseMesh ==
    /\ \E mesh \in DOMAIN meshes \ released :
          /\ \A s \in DOMAIN subds : subds[s].cage = mesh => s \in released
          /\ ccm_Release(mesh)
    /\ UNCHANGED <<countVars, ret, topoVars>>

CreateSubd ==
    /\ Cardinality(DOMAIN meshes) + Cardinality(DOMAIN subds) < MaxHandles
    /\ \E c \in DOMAIN meshes \ released, maxDepth \in 0..MaxSubdDepth :
          ccs_Create(c, maxDepth)
    /\ UNCHANGED <<countVars, ret, topoVars>>

ReleaseSubd ==
    /\ \E subd \in DOMAIN subds \ released : ccs_Release(subd)
    /\ UNCHANGED <<countVars, ret, topoVars>>

NextLife == CreateMesh \/ ReleaseMesh \/ CreateSubd \/ ReleaseSubd

SpecLife == InitLife /\ [][NextLife]_vars

(***************************************************************************)
(* Memory contents.  mem[p] maps the indices of block p that have been     *)
(* written to what was written there.  A read of an element never written  *)
(* (or outside the block) is indeterminate; it yields Unwritten.           *)
(***************************************************************************)
Unwritten ==
    [twinID |-> INT32_MIN, nextID |-> INT32_MIN, prevID |-> INT32_MIN,
     vertexID |-> INT32_MIN, edgeID |-> INT32_MIN, faceID |-> INT32_MIN,
     sharpness |-> INT32_MIN]

Written(p, i) == p \in DOMAIN mem /\ i \in DOMAIN mem[p]

Load(p, i) == IF Written(p, i) THEN mem[p][i] ELSE Unwritten

\* p[lo + j] = f[j] for j in 0..n-1
Store(m, p, lo, n, f) ==
    IF p = NULL \/ n <= 0 THEN m
    ELSE LET old == IF p \in DOMAIN m THEN m[p] ELSE <<>>
             new == [i \in DOMAIN old \cup (lo..(lo + n - 1)) |->
                        IF i >= lo /\ i < lo + n THEN f[i - lo] ELSE old[i]]
         IN  [q \in DOMAIN m \cup {p} |-> IF q = p THEN new ELSE m[q]]

(***************************************************************************)
(* Cage accessors, Mesh.cpp 202-351.  The element accessors ccm__Halfedge  *)
(* and ccm__Crease and ccm__ScrollFaceHalfedgeID_Quad are declared in      *)
(* Mesh.h.                                                                 *)
(***************************************************************************)
ccm__Halfedge(mesh, halfedgeID) == Load(mesh.halfedges, halfedgeID)
ccm__Crease(mesh, edgeID) == Load(mesh.creases, edgeID)

ccm_HalfedgeTwinID(mesh, halfedgeID) == ccm__Halfedge(mesh, halfedgeID).twinID
ccm_HalfedgeNextID(mesh, halfedgeID) == ccm__Halfedge(mesh, halfedgeID).nextID
ccm_HalfedgePrevID(mesh, halfedgeID) == ccm__Halfedge(mesh, halfedgeID).prevID
ccm_HalfedgeVertexID(mesh, halfedgeID) == ccm__Halfedge(mesh, halfedgeID).vertexID
ccm_HalfedgeEdgeID(mesh, halfedgeID) == ccm__Halfedge(mesh, halfedgeID).edgeID
ccm_HalfedgeFaceID(mesh, halfedgeID) == ccm__Halfedge(mesh, halfedgeID).faceID

ccm_CreaseNextID(mesh, edgeID) == ccm__Crease(mesh, edgeID).nextID
ccm_CreasePrevID(mesh, edgeID) == ccm__Crease(mesh, edgeID).prevID
ccm_CreaseSharpness(mesh, edgeID) == ccm__Crease(mesh, edgeID).sharpness

\* mutant: the face id taken from one bit too few
ccm_HalfedgeFaceID_Quad_Shift1(halfedgeID) == Shr32(halfedgeID, 1)

ccm_HalfedgeFaceID_Quad(halfedgeID) == Shr32(halfedgeID, 2)

\* the two low bits moved by direction modulo 4, the bits above them kept
ccm__ScrollFaceHalfedgeID_Quad(halfedgeID, direction) ==
    LET localID == (halfedgeID % 4) + direction
    IN  (halfedgeID - (halfedgeID % 4)) + (localID % 4)

ccm_HalfedgeNextID_Quad(halfedgeID) ==
    ccm__ScrollFaceHalfedgeID_Quad(halfedgeID, 1)

\* mutant: the previous halfedge scrolled forward, like the next one
ccm_HalfedgePrevID_Quad_Forward(halfedgeID) ==
    ccm__ScrollFaceHalfedgeID_Quad(halfedgeID, 1)

ccm_HalfedgePrevID_Quad(halfedgeID) ==
    ccm__ScrollFaceHalfedgeID_Quad(halfedgeID, -1)

ccm_VertexToHalfedgeID(mesh, vertexID) == Load(mesh.vertexToHalfedgeIDs, vertexID)
ccm_EdgeToHalfedgeID(mesh, edgeID) == Load(mesh.edgeToHalfedgeIDs, edgeID)
ccm_FaceToHalfedgeID(mesh, faceID) == Load(mesh.faceToHalfedgeIDs, faceID)
ccm_FaceToHalfedgeID_Quad(faceID) == Shl32(faceID, 2)

ccm_NextVertexHalfedgeID(mesh, halfedgeID) ==
    LET twinID == ccm_HalfedgeTwinID(mesh, halfedgeID)
    IN  IF twinID >= 0 THEN ccm_HalfedgeNextID(mesh, twinID) ELSE -1

\* mutant: the twin of the next halfedge instead of the previous one
ccm_PrevVertexHalfedgeID_ViaNext(mesh, halfedgeID) ==
    LET nextID == ccm_HalfedgeNextID(mesh, halfedgeID)
    IN  ccm_HalfedgeTwinID(mesh, nextID)

ccm_PrevVertexHalfedgeID(mesh, halfedgeID) ==
    LET prevID == ccm_HalfedgePrevID(mesh, halfedgeID)
    IN  ccm_HalfedgeTwinID(mesh, prevID)

(***************************************************************************)
(* Subd accessors, Mesh.cpp 589-757.  ccs__Halfedge and ccs__Crease are    *)
(* declared in Mesh.h: the element at the stride of the depth (the         *)
(* cumulative count through depth - 1) plus the id.                        *)
(***************************************************************************)
\* subd->cage
CageOf(subd) == meshes[subd.cage]

ccs__HalfedgeIndex(subd, halfedgeID, depth) ==
    Add32(ccs_CumulativeHalfedgeCountAtDepth(CageOf(subd), depth - 1), halfedgeID)

ccs__Halfedge(subd, halfedgeID, depth) ==
    Load(subd.halfedges, ccs__HalfedgeIndex(subd, halfedgeID, depth))

ccs__CreaseIndex(subd, edgeID, depth) ==
    Add32(ccs_CumulativeCreaseCountAtDepth(CageOf(subd), depth - 1), edgeID)

ccs__Crease(subd, edgeID, depth) ==
    Load(subd.creases, ccs__CreaseIndex(subd, edgeID, depth))

\* the crease accessors give the value returned and the elements of the
\* crease array they read
ccs_CreaseSharpness_Fast(subd, edgeID, depth) ==
    [value |-> ccs__Crease(subd, edgeID, depth).sharpness,
     reads |-> {ccs__CreaseIndex(subd, edgeID, depth)}]

ccs_CreaseSharpness(subd, edgeID, depth) ==
    LET creaseCount == ccm_CreaseCountAtDepth(CageOf(subd), depth)
    IN  IF edgeID < creaseCount
            THEN ccs_CreaseSharpness_Fast(subd, edgeID, depth)
            ELSE [value |-> 0, reads |-> {}]

ccs_CreaseNextID_Fast(subd, edgeID, depth) ==
    [value |-> ccs__Crease(subd, edgeID, depth).nextID,
     reads |-> {ccs__CreaseIndex(subd, edgeID, depth)}]

\* mutant: the first id past the creases taken for a crease
ccs_CreaseNextID_Inclusive(subd, edgeID, depth) ==
    LET creaseCount == ccm_CreaseCountAtDepth(CageOf(subd), depth)
    IN  IF edgeID <= creaseCount
            THEN ccs_CreaseNextID_Fast(subd, edgeID, depth)
            ELSE [value |-> edgeID, reads |-> {}]

ccs_CreaseNextID(subd, edgeID, depth) ==
    LET creaseCount == ccm_CreaseCountAtDepth(CageOf(subd), depth)
    IN  IF edgeID < creaseCount
            THEN ccs_CreaseNextID_Fast(subd, edgeID, depth)
            ELSE [value |-> edgeID, reads |-> {}]

ccs_CreasePrevID_Fast(subd, edgeID, depth) ==
    [value |-> ccs__Crease(subd, edgeID, depth).prevID,
     reads |-> {ccs__CreaseIndex(subd, edgeID, depth)}]

ccs_CreasePrevID(subd, edgeID, depth) ==
    LET creaseCount == ccm_CreaseCountAtDepth(CageOf(subd), depth)
    IN  IF edgeID < creaseCount
            THEN ccs_CreasePrevID_Fast(subd, edgeID, depth)
            ELSE [value |-> edgeID, reads |-> {}]

ccs_HalfedgeVertexID(subd, halfedgeID, depth) ==
    ccs__Halfedge(subd, halfedgeID, depth).vertexID

ccs_HalfedgeTwinID(subd, halfedgeID, depth) ==
    ccs__Halfedge(subd, halfedgeID, depth).twinID

ccs_HalfedgeNextID(subd, halfedgeID, depth) ==
    ccm_HalfedgeNextID_Quad(halfedgeID)

ccs_HalfedgePrevID(subd, halfedgeID, depth) ==
    ccm_HalfedgePrevID_Quad(halfedgeID)

ccs_HalfedgeFaceID(subd, halfedgeID, depth) ==
    ccm_HalfedgeFaceID_Quad(halfedgeID)

ccs_HalfedgeEdgeID(subd, halfedgeID, depth) ==
    ccs__Halfedge(subd, halfedgeID, depth).edgeID

\* mutant: the stride taken through the level itself
ccs_VertexPointIndex_StrideAtDepth(subd, vertexID, depth) ==
    LET stride == ccs_CumulativeVertexCountAtDepth(CageOf(subd), depth)
    IN  Add32(stride, vertexID)

ccs_VertexPointIndex(subd, vertexID, depth) ==
    LET stride == ccs_CumulativeVertexCountAtDepth(CageOf(subd), depth - 1)
    IN  Add32(stride, vertexID)

ccs_VertexPoint(subd, vertexID, depth) ==
    Load(subd.vertexPoints, ccs_VertexPointIndex(subd, vertexID, depth))

ccs_PrevVertexHalfedgeID(subd, halfedgeID, depth) ==
    LET prevID == ccs_HalfedgePrevID(subd, halfedgeID, depth)
    IN  ccs_HalfedgeTwinID(subd, prevID, depth)

ccs_NextVertexHalfedgeID(subd, halfedgeID, depth) ==
    LET twinID == ccs_HalfedgeTwinID(subd, halfedgeID, depth)
    IN  ccs_HalfedgeNextID(subd, twinID, depth)

ccs_FaceToHalfedgeID(subd, faceID, depth) == ccm_FaceToHalfedgeID_Quad(faceID)

(***************************************************************************)
(* Edge to halfedge mapping, Mesh.cpp 768-842 (the non-recursive version   *)
(* that is compiled).  ccs__EdgeToHalfedgeID_First is declared in Mesh.h:  *)
(* the cage's own edge-to-halfedge map composed with one subdivision step. *)
(***************************************************************************)
ccs__EdgeToHalfedgeID_First(c, edgeID) ==
    LET edgeCount == ccm_EdgeCount(c)
    IN  IF edgeID >= Mul32(2, edgeCount)
            THEN LET halfedgeID == Sub32(edgeID, Mul32(2, edgeCount))
                     nextID == ccm_HalfedgeNextID(c, halfedgeID)
                 IN  cc__Max(Add32(Mul32(4, halfedgeID), 1),
                             Add32(Mul32(4, nextID), 2))
        ELSE IF edgeID % 2 = 1
            THEN LET halfedgeID == ccm_EdgeToHalfedgeID(c, Shr32(edgeID, 1))
                     nextID == ccm_HalfedgeNextID(c, halfedgeID)
                 IN  Add32(Mul32(4, nextID), 3)
        ELSE LET halfedgeID == ccm_EdgeToHalfedgeID(c, Shr32(edgeID, 1))
             IN  Add32(Mul32(4, halfedgeID), 0)

\* mutant: the path bit taken from the band of the edge id, [0, E) or
\* [E, 2E), instead of its lowest bit
RECURSIVE ccs_EdgeToHalfedgeID_BuildHeap_Band(_, _)
ccs_EdgeToHalfedgeID_BuildHeap_Band(subd, st) ==
    IF st.heapDepth > 1
        THEN LET edgeCount ==
                     ccm_EdgeCountAtDepth_Fast(CageOf(subd), st.heapDepth - 1)
             IN  IF st.edgeID >= Mul32(2, edgeCount)
                     THEN LET halfedgeID == Sub32(st.edgeID, Mul32(2, edgeCount))
                              nextID == ccm_HalfedgeNextID_Quad(halfedgeID)
                          IN  [st EXCEPT !.edgeHalfedgeID =
                                  cc__Max(Add32(Mul32(4, halfedgeID), 1),
                                          Add32(Mul32(4, nextID), 2))]
                     ELSE ccs_EdgeToHalfedgeID_BuildHeap_Band(subd,
                              [st EXCEPT !.heap = 2 * @ + (IF st.edgeID >= edgeCount
                                                               THEN 1 ELSE 0),
                                         !.edgeID = Shr32(@, 1),
                                         !.heapDepth = @ - 1])
        ELSE st

\* "build heap": the loop over heapDepth on the locals
\* st = [heap, edgeID, heapDepth, edgeHalfedgeID]; heap is a uint32_t that
\* stays below 2^depth
RECURSIVE ccs_EdgeToHalfedgeID_BuildHeap(_, _)
ccs_EdgeToHalfedgeID_BuildHeap(subd, st) ==
    IF st.heapDepth > 1
        THEN LET edgeCount ==
                     ccm_EdgeCountAtDepth_Fast(CageOf(subd), st.heapDepth - 1)
             IN  IF st.edgeID >= Mul32(2, edgeCount)
                     THEN LET halfedgeID == Sub32(st.edgeID, Mul32(2, edgeCount))
                              nextID == ccm_HalfedgeNextID_Quad(halfedgeID)
                          IN  [st EXCEPT !.edgeHalfedgeID =
                                  cc__Max(Add32(Mul32(4, halfedgeID), 1),
                                          Add32(Mul32(4, nextID), 2))]
                     ELSE ccs_EdgeToHalfedgeID_BuildHeap(subd,
                              [st EXCEPT !.heap = 2 * @ + (st.edgeID % 2),
                                         !.edgeID = Shr32(@, 1),
                                         !.heapDepth = @ - 1])
        ELSE st

\* mutant: a set path bit replayed onto corner 2 of the next face
RECURSIVE ccs_EdgeToHalfedgeID_ReadHeap_Corner2(_, _)
ccs_EdgeToHalfedgeID_ReadHeap_Corner2(heap, edgeHalfedgeID) ==
    IF heap > 1
        THEN IF heap % 2 = 1
                 THEN LET nextID == ccm_HalfedgeNextID_Quad(edgeHalfedgeID)
                      IN  ccs_EdgeToHalfedgeID_ReadHeap_Corner2(heap \div 2,
                              Add32(Mul32(4, nextID), 2))
                 ELSE ccs_EdgeToHalfedgeID_ReadHeap_Corner2(heap \div 2,
                          Add32(Mul32(4, edgeHalfedgeID), 0))
        ELSE edgeHalfedgeID

\* "read heap": the loop that replays the path bits
RECURSIVE ccs_EdgeToHalfedgeID_ReadHeap(_, _)
ccs_EdgeToHalfedgeID_ReadHeap(heap, edgeHalfedgeID) ==
    IF heap > 1
        THEN IF heap % 2 = 1
                 THEN LET nextID == ccm_HalfedgeNextID_Quad(edgeHalfedgeID)
                      IN  ccs_EdgeToHalfedgeID_ReadHeap(heap \div 2,
                              Add32(Mul32(4, nextID), 3))
                 ELSE ccs_EdgeToHalfedgeID_ReadHeap(heap \div 2,
                          Add32(Mul32(4, edgeHalfedgeID), 0))
        ELSE edgeHalfedgeID

\* the next halfedge of a quad face under the name the recursive version
\* calls it by
ccm_NextFaceHalfedgeID_Quad(halfedgeID) ==
    ccm__ScrollFaceHalfedgeID_Quad(halfedgeID, 1)

\* the recursive version kept next to the compiled one, Mesh.cpp 774-799
RECURSIVE ccs_EdgeToHalfedgeID_Recursive(_, _, _)
ccs_EdgeToHalfedgeID_Recursive(subd, edgeID, depth) ==
    IF depth > 1
        THEN LET edgeCount == ccm_EdgeCountAtDepth_Fast(CageOf(subd), depth - 1)
             IN  IF edgeID >= Mul32(2, edgeCount)
                     THEN LET halfedgeID == Sub32(edgeID, Mul32(2, edgeCount))
                              nextID == ccm_NextFaceHalfedgeID_Quad(halfedgeID)
                          IN  cc__Max(Add32(Mul32(4, halfedgeID), 1),
                                      Add32(Mul32(4, nextID), 2))
                 ELSE IF edgeID >= edgeCount
                     THEN LET halfedgeID ==
                                  ccs_EdgeToHalfedgeID_Recursive(subd,
                                      Shr32(edgeID, 1), depth - 1)
                              nextID == ccm_NextFaceHalfedgeID_Quad(halfedgeID)
                          IN  Add32(Mul32(4, nextID), 3)
                 ELSE LET halfedgeID ==
                              ccs_EdgeToHalfedgeID_Recursive(subd,
                                  Shr32(edgeID, 1), depth - 1)
                      IN  Add32(Mul32(4, halfedgeID), 0)
        ELSE ccs__EdgeToHalfedgeID_First(CageOf(subd), edgeID)

\* the locals when the "build heap" loop is left, from their declarations
ccs_EdgeToHalfedgeID_Descent(subd, edgeID, depth) ==
    ccs_EdgeToHalfedgeID_BuildHeap(subd,
        [heap |-> 1, edgeID |-> edgeID, heapDepth |-> depth,
         edgeHalfedgeID |-> 0])

ccs_EdgeToHalfedgeID(subd, edgeID, depth) ==
    LET built0 == ccs_EdgeToHalfedgeID_Descent(subd, edgeID, depth)
        root == IF built0.heapDepth = 1
                    THEN ccs__EdgeToHalfedgeID_First(CageOf(subd), built0.edgeID)
                    ELSE built0.edgeHalfedgeID
    IN  ccs_EdgeToHalfedgeID_ReadHeap(built0.heap, root)

(***************************************************************************)
(* What the external stages store.  The loader fills the cage; one         *)
(* subdivision step fills one level of the subd.  Neither is part of       *)
(* Mesh.cpp; they follow the data model of the specification.              *)
(***************************************************************************)
\* a cage of one face with n sides, every halfedge on the boundary
Polygon(n) ==
    [vertexCount |-> n, uvCount |-> 0, halfedgeCount |-> n, edgeCount |-> n,
     faceCount |-> 1,
     halfedges |-> [h \in 0..(n - 1) |->
         [twinID |-> -1, nextID |-> (h + 1) % n, prevID |-> (h + n - 1) % n,
          vertexID |-> h, edgeID |-> h, faceID |-> 0]],
     edgeToHalfedgeIDs |-> [e \in 0..(n - 1) |-> e],
     faceToHalfedgeIDs |-> [f \in {0} |-> 0],
     vertexToHalfedgeIDs |-> [v \in 0..(n - 1) |-> v]]

\* two triangles that share edge 1 (halfedges 1 and 3)
TwoTriangles ==
    [vertexCount |-> 4, uvCount |-> 0, halfedgeCount |-> 6, edgeCount |-> 5,
     faceCount |-> 2,
     halfedges |-> [h \in 0..5 |->
         [twinID |-> IF h = 1 THEN 3 ELSE IF h = 3 THEN 1 ELSE -1,
          nextID |-> <<1, 2, 0, 4, 5, 3>>[h + 1],
          prevID |-> <<2, 0, 1, 5, 3, 4>>[h + 1],
          vertexID |-> <<0, 1, 2, 2, 1, 3>>[h + 1],
          edgeID |-> <<0, 1, 2, 1, 3, 4>>[h + 1],
          faceID |-> IF h < 3 THEN 0 ELSE 1]],
     edgeToHalfedgeIDs |-> [e \in 0..4 |-> <<0, 3, 2, 4, 5>>[e + 1]],
     faceToHalfedgeIDs |-> [f \in 0..1 |-> 3 * f],
     vertexToHalfedgeIDs |-> [v \in 0..3 |-> <<0, 1, 2, 5>>[v + 1]]]

\* two triangles glued along all three edges: a closed surface, no boundary
Pillow ==
    [vertexCount |-> 3, uvCount |-> 0, halfedgeCount |-> 6, edgeCount |-> 3,
     faceCount |-> 2,
     halfedges |-> [h \in 0..5 |->
         [twinID |-> <<3, 5, 4, 0, 2, 1>>[h + 1],
          nextID |-> <<1, 2, 0, 4, 5, 3>>[h + 1],
          prevID |-> <<2, 0, 1, 5, 3, 4>>[h + 1],
          vertexID |-> <<0, 1, 2, 1, 0, 2>>[h + 1],
          edgeID |-> <<0, 1, 2, 0, 2, 1>>[h + 1],
          faceID |-> IF h < 3 THEN 0 ELSE 1]],
     edgeToHalfedgeIDs |-> [e \in 0..2 |-> <<3, 5, 4>>[e + 1]],
     faceToHalfedgeIDs |-> [f \in 0..1 |-> 3 * f],
     vertexToHalfedgeIDs |-> [v \in 0..2 |-> v]]

TopoCages == {Polygon(4), Polygon(3), TwoTriangles, Pillow}

\* the crease record of edge e among n: unlinked and smooth in the cage
CageCrease(e) == [sharpness |-> 0, nextID |-> e, prevID |-> e]

\* the loader's writes into the arrays of ccm_Create
LoadedCage(m, mesh, data) ==
    LET m1 == Store(m, mesh.halfedges, 0, data.halfedgeCount, data.halfedges)
        m2 == Store(m1, mesh.edgeToHalfedgeIDs, 0, data.edgeCount,
                    data.edgeToHalfedgeIDs)
        m3 == Store(m2, mesh.faceToHalfedgeIDs, 0, data.faceCount,
                    data.faceToHalfedgeIDs)
        m4 == Store(m3, mesh.vertexToHalfedgeIDs, 0, data.vertexCount,
                    data.vertexToHalfedgeIDs)
        m5 == Store(m4, mesh.creases, 0, data.edgeCount,
                    [e \in 0..(data.edgeCount - 1) |-> CageCrease(e)])
    IN  Store(m5, mesh.vertexPoints, 0, data.vertexCount,
              [v \in 0..(data.vertexCount - 1) |-> <<0, v>>])

\* the halfedge fields of the parent level d (the cage when d = 0)
ParentTwinID(subd, h, d) ==
    IF d = 0 THEN ccm_HalfedgeTwinID(CageOf(subd), h)
    ELSE ccs_HalfedgeTwinID(subd, h, d)

ParentNextID(subd, h, d) ==
    IF d = 0 THEN ccm_HalfedgeNextID(CageOf(subd), h)
    ELSE ccs_HalfedgeNextID(subd, h, d)

ParentPrevID(subd, h, d) ==
    IF d = 0 THEN ccm_HalfedgePrevID(CageOf(subd), h)
    ELSE ccs_HalfedgePrevID(subd, h, d)

ParentEdgeID(subd, h, d) ==
    IF d = 0 THEN ccm_HalfedgeEdgeID(CageOf(subd), h)
    ELSE ccs_HalfedgeEdgeID(subd, h, d)

\* Quad split of the face corner at parent halfedge h of level d: the child
\* face has halfedges 4h..4h+3, halfedge 4h on the first half of h's edge,
\* 4h+1 and 4h+2 on the spokes of h and prev(h), 4h+3 on the second half of
\* the edge of prev(h).  The halves of an edge are numbered from the origin
\* of its halfedge of larger id; spoke h is edge 2E + h.
RefinedHalfedge(subd, d, j) ==
    LET h == j \div 4
        k == j % 4
        edgeCount == ccm_EdgeCountAtDepth(CageOf(subd), d)
        twinID == ParentTwinID(subd, h, d)
        nextID == ParentNextID(subd, h, d)
        prevID == ParentPrevID(subd, h, d)
        prevTwinID == ParentTwinID(subd, prevID, d)
    IN  CASE k = 0 ->
                 [twinID |-> IF twinID >= 0
                                 THEN 4 * ParentNextID(subd, twinID, d) + 3
                                 ELSE -1,
                  edgeID |-> 2 * ParentEdgeID(subd, h, d)
                                 + (IF h > twinID THEN 0 ELSE 1)]
          [] k = 1 ->
                 [twinID |-> 4 * nextID + 2, edgeID |-> 2 * edgeCount + h]
          [] k = 2 ->
                 [twinID |-> 4 * prevID + 1, edgeID |-> 2 * edgeCount + prevID]
          [] OTHER ->
                 [twinID |-> IF prevTwinID >= 0 THEN 4 * prevTwinID ELSE -1,
                  edgeID |-> 2 * ParentEdgeID(subd, prevID, d)
                                 + (IF prevID > prevTwinID THEN 1 ELSE 0)]

\* the crease records of level d: a chain through the n creases of the
\* level, of sharpness d (any record would do; the accessors only read it)
RefinedCrease(d, n, e) ==
    [sharpness |-> d, nextID |-> (e + 1) % n, prevID |-> (e + n - 1) % n]

\* the point of vertex v of level d
RefinedVertexPoint(d, v) == <<d, v>>

\* one subdivision step: level d + 1 written at its stride into the three
\* arrays of the subd
RefinedLevel(m, subd, d) ==
    LET c == CageOf(subd)
        halfedgeCount == ccm_HalfedgeCountAtDepth(c, d + 1)
        creaseCount == ccm_CreaseCountAtDepth(c, d + 1)
        vertexCount == ccm_VertexCountAtDepth(c, d + 1)
        m1 == Store(m, subd.halfedges,
                    ccs_CumulativeHalfedgeCountAtDepth(c, d), halfedgeCount,
                    [j \in 0..(halfedgeCount - 1) |->
                        RefinedHalfedge(subd, d, j)])
        m2 == Store(m1, subd.creases,
                    ccs_CumulativeCreaseCountAtDepth(c, d), creaseCount,
                    [e \in 0..(creaseCount - 1) |->
                        RefinedCrease(d + 1, creaseCount, e)])
    IN  Store(m2, subd.vertexPoints,
              ccs_CumulativeVertexCountAtDepth(c, d), vertexCount,
              [v \in 0..(vertexCount - 1) |-> RefinedVertexPoint(d + 1, v)])

(***************************************************************************)
(* Topology specification: one cage is created and loaded, one subd is     *)
(* created on it and filled level by level, and the accessors are called   *)
(* on the levels of the finished subd.                                     *)
(***************************************************************************)
InitTopo ==
    /\ cage \in TopoCages
    /\ blocks = <<>> /\ meshes = <<>> /\ subds = <<>> /\ released = {}
    /\ zeroNull \in BOOLEAN
    /\ mem = <<>> /\ built = 0
    /\ reached = 0 /\ level = NoCounts /\ stored = NoCounts
    /\ ret = NoRet

CreateCage ==
    /\ meshes = <<>>
    /\ ccm_Create(cage.vertexCount, cage.uvCount, cage.halfedgeCount,
                  cage.edgeCount, cage.faceCount)
    /\ UNCHANGED <<countVars, ret, topoVars>>

LoadCage ==
    /\ mem = <<>>
    /\ \E c \in DOMAIN meshes :
          mem' = LoadedCage(mem, meshes[c], cage)
    /\ UNCHANGED <<countVars, ret, lifeVars, built>>

CreateSubdOnCage ==
    /\ mem # <<>> /\ subds = <<>>
    /\ \E c \in DOMAIN meshes, maxDepth \in 0..MaxTopoDepth :
          ccs_Create(c, maxDepth)
    /\ UNCHANGED <<countVars, ret, topoVars>>

RefineLevel ==
    /\ \E s \in DOMAIN subds :
          /\ built < ccs_MaxDepth(subds[s])
          /\ mem' = RefinedLevel(mem, subds[s], built)
    /\ built' = built + 1
    /\ UNCHANGED <<countVars, ret, lifeVars>>

\* the subds whose levels are all written, with a depth to read
Finished == {s \in DOMAIN subds : built = ccs_MaxDepth(subds[s])}

CallEdgeToHalfedgeID ==
    /\ ret = NoRet
    /\ \E s \in Finished, d \in 1..MaxTopoDepth :
          /\ d <= ccs_MaxDepth(subds[s])
          /\ \E edgeID \in 0..(ccm_EdgeCountAtDepth(CageOf(subds[s]), d) - 1) :
                ret' = [op |-> "ccs_EdgeToHalfedgeID", subd |-> s, depth |-> d,
                        edgeID |-> edgeID,
                        descent |->
                            ccs_EdgeToHalfedgeID_Descent(subds[s], edgeID, d),
                        recursive |->
                            ccs_EdgeToHalfedgeID_Recursive(subds[s], edgeID, d),
                        halfedgeID |-> ccs_EdgeToHalfedgeID(subds[s], edgeID, d)]
    /\ UNCHANGED <<countVars, lifeVars, topoVars>>

CallCrease ==
    /\ ret = NoRet
    /\ \E s \in Finished, d \in 1..MaxTopoDepth :
          /\ d <= ccs_MaxDepth(subds[s])
          /\ \E edgeID \in 0..(ccm_EdgeCountAtDepth(CageOf(subds[s]), d) - 1) :
                LET sharpness == ccs_CreaseSharpness(subds[s], edgeID, d)
                    nextID == ccs_CreaseNextID(subds[s], edgeID, d)
                    prevID == ccs_CreasePrevID(subds[s], edgeID, d)
                IN  ret' = [op |-> "ccs_Crease", subd |-> s, depth |-> d,
                            edgeID |-> edgeID,
                            sharpness |-> sharpness.value,
                            nextID |-> nextID.value, prevID |-> prevID.value,
                            reads |-> sharpness.reads \cup nextID.reads
                                          \cup prevID.reads]
    /\ UNCHANGED <<countVars, lifeVars, topoVars>>

CallHalfedgeFace ==
    /\ ret = NoRet
    /\ \E s \in Finished, d \in 1..MaxTopoDepth :
          /\ d <= ccs_MaxDepth(subds[s])
          /\ \E h \in 0..(ccm_HalfedgeCountAtDepth(CageOf(subds[s]), d) - 1) :
                LET subd == subds[s]
                    faceID == ccs_HalfedgeFaceID(subd, h, d)
                    nextID == ccs_HalfedgeNextID(subd, h, d)
                    prevID == ccs_HalfedgePrevID(subd, h, d)
                    next2 == ccs_HalfedgeNextID(subd, nextID, d)
                    next3 == ccs_HalfedgeNextID(subd, next2, d)
                    first == ccs_FaceToHalfedgeID(subd, faceID, d)
                IN  ret' = [op |-> "ccs_HalfedgeFace", subd |-> s, depth |-> d,
                            halfedgeID |-> h, faceID |-> faceID,
                            nextID |-> nextID, prevID |-> prevID,
                            faceOfNext |-> ccs_HalfedgeFaceID(subd, nextID, d),
                            faceOfPrev |-> ccs_HalfedgeFaceID(subd, prevID, d),
                            prevOfNext |-> ccs_HalfedgePrevID(subd, nextID, d),
                            nextOfPrev |-> ccs_HalfedgeNextID(subd, prevID, d),
                            cycle |-> <<h, nextID, next2, next3,
                                        ccs_HalfedgeNextID(subd, next3, d)>>,
                            faceToHalfedgeID |-> first,
                            faceOfFirst |-> ccs_HalfedgeFaceID(subd, first, d)]
    /\ UNCHANGED <<countVars, lifeVars, topoVars>>

CallVertexHalfedge ==
    /\ ret = NoRet
    /\ \E s \in Finished, d \in 1..MaxTopoDepth :
          /\ d <= ccs_MaxDepth(subds[s])
          /\ \E h \in 0..(ccm_HalfedgeCountAtDepth(CageOf(subds[s]), d) - 1) :
                ret' = [op |-> "ccs_VertexHalfedge", subd |-> s, depth |-> d,
                        halfedgeID |-> h,
                        next |-> ccs_NextVertexHalfedgeID(subds[s], h, d),
                        prev |-> ccs_PrevVertexHalfedgeID(subds[s], h, d)]
    /\ UNCHANGED <<countVars, lifeVars, topoVars>>

CallVertexPoint ==
    /\ ret = NoRet
    /\ \E s \in Finished, d \in 1..MaxTopoDepth :
          /\ d <= ccs_MaxDepth(subds[s])
          /\ \E v \in 0..(ccm_VertexCountAtDepth(CageOf(subds[s]), d) - 1) :
                ret' = [op |-> "ccs_VertexPoint", subd |-> s, depth |-> d,
                        vertexID |-> v,
                        index |-> ccs_VertexPointIndex(subds[s], v, d),
                        point |-> ccs_VertexPoint(subds[s], v, d)]
    /\ UNCHANGED <<countVars, lifeVars, topoVars>>

\* the two rotations on a halfedge of the loaded cage, each followed by the
\* other one when it returned a halfedge
CallCageVertexHalfedge ==
    /\ ret = NoRet
    /\ mem # <<>>
    /\ \E c \in DOMAIN meshes :
          \E h \in 0..(ccm_HalfedgeCount(meshes[c]) - 1) :
             LET mesh == meshes[c]
                 nextID == ccm_NextVertexHalfedgeID(mesh, h)
                 prevID == ccm_PrevVertexHalfedgeID(mesh, h)
             IN  ret' = [op |-> "ccm_VertexHalfedge", mesh |-> c,
                         halfedgeID |-> h, next |-> nextID, prev |-> prevID,
                         prevOfNext |->
                             IF nextID >= 0
                                 THEN {ccm_PrevVertexHalfedgeID(mesh, nextID)}
                                 ELSE {},
                         nextOfPrev |->
                             IF prevID >= 0
                                 THEN {ccm_NextVertexHalfedgeID(mesh, prevID)}
                                 ELSE {}]
    /\ UNCHANGED <<countVars, lifeVars, topoVars>>

NextTopo ==
    \/ CreateCage \/ LoadCage \/ CreateSubdOnCage \/ RefineLevel
    \/ CallEdgeToHalfedgeID \/ CallCrease \/ CallHalfedgeFace
    \/ CallVertexHalfedge \/ CallVertexPoint \/ CallCageVertexHalfedge

SpecTopo == InitTopo /\ [][NextTopo]_vars

(***************************************************************************)
(* Claims on the counting formulas (SpecCount).                            *)
(***************************************************************************)
FitsInt32(n) ==
    /\ n.V <= INT32_MAX /\ n.E <= INT32_MAX /\ n.H <= INT32_MAX
    /\ n.F <= INT32_MAX /\ n.C <= INT32_MAX

\* C1: whenever the counts fit in 32 bits, the five per-level functions
\* evaluated at depth d return the counts obtained by applying the one-step
\* rules d times to the cage's base counts (the cage's own counts at d = 0).
C1_PerLevelMatchesIteration ==
    (ret.op = "counts" /\ FitsInt32(level)) => ret.at = level

C1_Witness ==
    /\ ret.op = "counts" /\ ret.depth >= 3 /\ ret.at = level
    /\ cage.halfedgeCount >= 3 /\ cage.edgeCount >= 2
    /\ cage.vertexCount >= 1 /\ cage.faceCount >= 1

RECURSIVE GeometricSum(_, _)
GeometricSum(r, D) == IF D = 0 THEN 1 ELSE (r ^ D) + GeometricSum(r, D - 1)

C9_CreasesBelowEdges ==
    (ret.op = "counts" /\ cage.halfedgeCount >= 1) =>
        /\ ret.depth >= 1 =>
              /\ ret.at.C = 2 * ccm_CreaseCountAtDepth(cage, ret.depth - 1)
              /\ ret.at.C < ret.at.E
        /\ ret.depth = 0 => ret.at.C = ret.at.E

C9_Witness ==
    /\ ret.op = "counts" /\ ret.depth >= 2 /\ cage.halfedgeCount >= 1
    /\ cage.edgeCount >= 1 /\ ret.at.C < ret.at.E

\* C11 as stated: for the cube cage, ccm_HalfedgeCountAtDepth at depth 2
\* returns 96.
C11_CubeDepth2Is96 ==
    (ret.op = "counts" /\ cage = Cube /\ ret.depth = 2) => ret.at.H = 96

\* C11 amended: for the cube cage, ccm_HalfedgeCountAtDepth returns
\* 24 * 4^2 = 384 at depth 2; 96 = 24 * 4 is what it returns at depth 1.
C11_CubeDepth2Is384 ==
    (ret.op = "counts" /\ cage = Cube) =>
        /\ ret.depth = 2 => ret.at.H = 384
        /\ ret.depth = 1 => ret.at.H = 96

C11_Witness ==
    /\ ret.op = "counts" /\ cage = Cube /\ ret.depth = 2
    /\ ret.at.H = 384 /\ level.H = 384


(***************************************************************************)
(* Claims on creation and release (SpecLife).                              *)
(***************************************************************************)
Handles == DOMAIN meshes \cup DOMAIN subds

OwnedBy(h) == {b \in DOMAIN blocks : blocks[b].owner = h}

MeshPointers(m) ==
    {m.vertexToHalfedgeIDs, m.edgeToHalfedgeIDs, m.faceToHalfedgeIDs,
     m.halfedges, m.creases, m.vertexPoints, m.uvs}

SubdPointers(s) == {s.halfedges, s.creases, s.vertexPoints}

\* the blocks a handle owns are its struct and the arrays its members point to
OwnsItsArrays ==
    /\ \A m \in DOMAIN meshes :
          /\ OwnedBy(m) = ({m} \cup MeshPointers(meshes[m])) \ {NULL}
          /\ {blocks[b].member : b \in OwnedBy(m) \ {m}} \subseteq
                {MeshArrays[i] : i \in 1..7}
          /\ Cardinality(OwnedBy(m)) <= 8
    /\ \A s \in DOMAIN subds :
          /\ OwnedBy(s) = ({s} \cup SubdPointers(subds[s])) \ {NULL}
          /\ Cardinality(OwnedBy(s)) <= 4
          /\ subds[s].cage \in DOMAIN meshes

ReleaseInvariant ==
    /\ OwnsItsArrays
    \* no block is freed twice
    /\ \A b \in DOMAIN blocks : blocks[b].frees <= 1
    \* a block is freed only by the release of the handle that owns it
    /\ \A b \in DOMAIN blocks :
          blocks[b].frees >= 1 =>
              blocks[b].freedBy = blocks[b].owner /\ blocks[b].owner \in released
    \* a release frees every block of its handle
    /\ \A h \in released : \A b \in OwnedBy(h) : blocks[b].frees = 1
    \* a handle not released keeps its struct and arrays
    /\ \A h \in Handles \ released : \A b \in OwnedBy(h) : Live(b)
    \* once every handle is released nothing is live
    /\ Handles \subseteq released => \A b \in DOMAIN blocks : ~Live(b)

\* a release changes neither the structs nor the blocks of the other handles
ReleaseLeavesOthers ==
    released' # released =>
        /\ meshes' = meshes /\ subds' = subds
        /\ \A b \in DOMAIN blocks :
              blocks[b].owner \notin released' \ released => blocks'[b] = blocks[b]

\* C10: when every handle is released at most once and a subd before its
\* cage, ccm_Release frees exactly the seven arrays of ccm_Create and the
\* struct, ccs_Release frees exactly the three arrays of ccs_Create and the
\* struct and leaves the cage and its arrays allocated and unchanged, no block
\* is freed twice, and after the last release no block is live.
C10_ReleaseFreesOwnBlocks == []ReleaseInvariant /\ [][ReleaseLeavesOthers]_vars

C10_Witness ==
    /\ Cardinality(DOMAIN meshes) >= 2
    /\ \E s \in DOMAIN subds : subds[s].maxDepth >= 1 /\ subds[s].halfedges # NULL
    /\ \E m \in DOMAIN meshes : meshes[m].uvs = NULL /\ meshes[m].halfedges # NULL
    /\ Handles \subseteq released
    /\ \A b \in DOMAIN blocks : blocks[b].frees = 1

(***************************************************************************)
(* Claims on addressing and traversal (SpecTopo).                          *)
(***************************************************************************)
Kinds == {"halfedges", "creases", "vertexPoints"}

\* the element count ccs_Create asked malloc for
Allocated(p) == IF p = NULL THEN 0 ELSE blocks[p].elems

\* the indices of the array at p that hold a value
Cells(p) == IF p \in DOMAIN mem THEN DOMAIN mem[p] ELSE {}

\* the index the accessors compute for element 0 of level d
LevelStride(subd, kind, d) ==
    CASE kind = "halfedges" -> ccs__HalfedgeIndex(subd, 0, d)
      [] kind = "creases" -> ccs__CreaseIndex(subd, 0, d)
      [] OTHER -> ccs_VertexPointIndex(subd, 0, d)

LevelCount(subd, kind, d) ==
    CASE kind = "halfedges" -> ccm_HalfedgeCountAtDepth(CageOf(subd), d)
      [] kind = "creases" -> ccm_CreaseCountAtDepth(CageOf(subd), d)
      [] OTHER -> ccm_VertexCountAtDepth(CageOf(subd), d)

\* C3: in a subd made by ccs_Create, for each of the three arrays the range
\* of level 1 starts at 0, the range of each level d < maxDepth ends where
\* the range of level d + 1 starts, and the range of level maxDepth ends at
\* the allocated element count; every index written by a subdivision step
\* or computed by ccs_VertexPoint is inside the allocation, and a level's
\* vertex point is read back unchanged once all levels are written.
C3_LevelRangesTile ==
    \A s \in DOMAIN subds : \A kind \in Kinds :
        LET subd == subds[s]
            n == ccs_MaxDepth(subd)
            p == subd[kind]
        IN  /\ n >= 1 => LevelStride(subd, kind, 1) = 0
            /\ \A d \in 1..n :
                  /\ LevelCount(subd, kind, d) >= 0
                  /\ LevelStride(subd, kind, d) + LevelCount(subd, kind, d)
                        = IF d < n THEN LevelStride(subd, kind, d + 1)
                                   ELSE Allocated(p)
            /\ Cells(p) \subseteq 0..(Allocated(p) - 1)
            /\ built = n => Cells(p) = 0..(Allocated(p) - 1)
            /\ (ret.op = "ccs_VertexPoint" /\ ret.subd = s) =>
                  /\ ret.index \in 0..(Allocated(subd.vertexPoints) - 1)
                  /\ ret.point = RefinedVertexPoint(ret.depth, ret.vertexID)

C3_Witness ==
    /\ ret.op = "ccs_VertexPoint" /\ ret.depth >= 2
    /\ ret.depth = ccs_MaxDepth(subds[ret.subd])
    /\ ret.index = Allocated(subds[ret.subd].vertexPoints) - 1
    /\ ret.point = <<ret.depth, ret.vertexID>>
    /\ built = ret.depth

\* C4: on the cage of one quad (V0 = 4, E0 = 4, H0 = 4, F0 = 1) refined by
\* the quad split, for every depth of the subd and every edge id below the
\* edge count of that depth, ccs_EdgeToHalfedgeID returns a halfedge id of
\* that depth whose ccs_HalfedgeEdgeID is the edge id asked for.
C4_ResolverFindsEdge ==
    (ret.op = "ccs_EdgeToHalfedgeID" /\ cage = Polygon(4)) =>
        LET subd == subds[ret.subd]
        IN  /\ ret.halfedgeID >= 0
            /\ ret.halfedgeID < ccm_HalfedgeCountAtDepth(CageOf(subd), ret.depth)
            /\ ccs_HalfedgeEdgeID(subd, ret.halfedgeID, ret.depth) = ret.edgeID

\* a depth-3 edge reached through a set path bit and the level-1 map
C4_Witness ==
    /\ ret.op = "ccs_EdgeToHalfedgeID" /\ cage = Polygon(4)
    /\ ret.depth = 3 /\ ret.edgeID = 7
    /\ ccs_HalfedgeEdgeID(subds[ret.subd], ret.halfedgeID, 3) = 7

\* C5: for an edge id from the crease count of the depth up to its edge
\* count, ccs_CreaseSharpness returns 0 and ccs_CreaseNextID and
\* ccs_CreasePrevID return the edge id, and none of them reads the crease
\* array; for an edge id below the crease count they return the fields of
\* the crease record stored for that edge at that level.
C5_CreaseSentinel ==
    ret.op = "ccs_Crease" =>
        LET subd == subds[ret.subd]
            creaseCount == ccm_CreaseCountAtDepth(CageOf(subd), ret.depth)
            stored_ == RefinedCrease(ret.depth, creaseCount, ret.edgeID)
        IN  IF ret.edgeID >= creaseCount
                THEN /\ ret.sharpness = 0
                     /\ ret.nextID = ret.edgeID
                     /\ ret.prevID = ret.edgeID
                     /\ ret.reads = {}
                ELSE /\ ret.sharpness = stored_.sharpness
                     /\ ret.nextID = stored_.nextID
                     /\ ret.prevID = stored_.prevID
                     /\ ret.reads = {ccs__CreaseIndex(subd, ret.edgeID, ret.depth)}
                     /\ Written(subd.creases,
                                ccs__CreaseIndex(subd, ret.edgeID, ret.depth))

\* the first edge id that is not a crease, below the deepest level
C5_Witness ==
    /\ ret.op = "ccs_Crease"
    /\ ret.depth >= 1 /\ ret.depth < ccs_MaxDepth(subds[ret.subd])
    /\ ret.edgeID = ccm_CreaseCountAtDepth(CageOf(subds[ret.subd]), ret.depth)
    /\ ret.sharpness = 0 /\ ret.nextID = ret.edgeID /\ ret.prevID = ret.edgeID
    /\ ret.reads = {}

\* C6: for a halfedge id h of a subd level, the face id is h >> 2; the next
\* and the previous halfedge have the same face id; the previous of the next
\* and the next of the previous are h; the four ids 4f..4f+3 of the face are
\* one cycle of length 4 under the next halfedge; and the face id of the
\* halfedge ccs_FaceToHalfedgeID gives for f is f.
C6_QuadTopology ==
    ret.op = "ccs_HalfedgeFace" =>
        LET h == ret.halfedgeID
            f == h \div 4
        IN  /\ ret.faceID = f
            /\ ret.faceOfNext = f /\ ret.faceOfPrev = f
            /\ ret.prevOfNext = h /\ ret.nextOfPrev = h
            /\ ret.cycle[5] = h
            /\ {ret.cycle[i] : i \in 1..4} = (4 * f)..(4 * f + 3)
            /\ ret.faceToHalfedgeID \in (4 * f)..(4 * f + 3)
            /\ ret.faceOfFirst = f

\* the last corner of a face other than face 0: the next halfedge wraps
C6_Witness ==
    /\ ret.op = "ccs_HalfedgeFace" /\ ret.depth >= 2
    /\ ret.halfedgeID % 4 = 3 /\ ret.faceID >= 1
    /\ ret.nextID = ret.halfedgeID - 3 /\ ret.prevOfNext = ret.halfedgeID

\* C8 as stated: ccs_NextVertexHalfedgeID returns -1 when the twin of h is
\* -1 and the next halfedge of the twin otherwise, and
\* ccs_PrevVertexHalfedgeID returns the twin of the previous halfedge.
C8_RotationMirrorsCage ==
    ret.op = "ccs_VertexHalfedge" =>
        LET subd == subds[ret.subd]
            twinID == ccs_HalfedgeTwinID(subd, ret.halfedgeID, ret.depth)
            prevID == ccs_HalfedgePrevID(subd, ret.halfedgeID, ret.depth)
        IN  /\ ret.next = IF twinID = -1 THEN -1
                          ELSE ccs_HalfedgeNextID(subd, twinID, ret.depth)
            /\ ret.prev = ccs_HalfedgeTwinID(subd, prevID, ret.depth)

\* what the descent of the last ccs_EdgeToHalfedgeID call did, read off the
\* locals it left: the number of path bits pushed, the level, the edge id
\* and the parent edge count at the i-th iteration, and the i-th bit pushed
DescentPushes == ret.depth - ret.descent.heapDepth

DescentLevel(i) == ret.depth - i + 1

DescentEdgeID(i) == ret.edgeID \div Pow2(i - 1)

DescentEdgeCount(i) ==
    ccm_EdgeCountAtDepth(CageOf(subds[ret.subd]), DescentLevel(i) - 1)

DescentBit(i) == (ret.descent.heap \div Pow2(DescentPushes - i)) % 2

\* the end of the descent: every pushed edge id was below 2 E, the heap holds
\* one bit per push, the edge id left is the input halved once per push, and
\* a descent that stops above level 1 stops on a spoke edge with halfedge id
\* max(4h + 1, 4 next(h) + 2), h = edgeID - 2 E
DescentEnds ==
    LET n == DescentPushes
        e == DescentEdgeID(n + 1)
        h == e - 2 * DescentEdgeCount(n + 1)
        nextID == (h - (h % 4)) + (((h % 4) + 1) % 4)
    IN  /\ n >= 0
        /\ \A i \in 1..n : DescentEdgeID(i) < 2 * DescentEdgeCount(i)
        /\ ret.descent.heap \div Pow2(n) = 1
        /\ ret.descent.edgeID = e
        /\ ret.descent.heapDepth >= 1
        /\ ret.descent.heapDepth > 1 =>
              /\ h >= 0
              /\ ret.descent.edgeHalfedgeID
                    = cc__Max(4 * h + 1, 4 * nextID + 2)
              /\ ret.halfedgeID # ret.descent.edgeHalfedgeID
                    => DescentPushes >= 1

C13_IterativeEqualsRecursive ==
    ret.op = "ccs_EdgeToHalfedgeID" => ret.halfedgeID = ret.recursive

\* the half-edge invariants of a loaded cage: ids in range, next and prev
\* inverse of each other, the twin of a twin is the halfedge itself
HalfedgeInvariants(mesh) ==
    LET ids == 0..(ccm_HalfedgeCount(mesh) - 1)
    IN  \A h \in ids :
           /\ ccm_HalfedgeNextID(mesh, h) \in ids
           /\ ccm_HalfedgePrevID(mesh, h) \in ids
           /\ ccm_HalfedgeTwinID(mesh, h) \in ids \cup {-1}
           /\ ccm_HalfedgeNextID(mesh, ccm_HalfedgePrevID(mesh, h)) = h
           /\ ccm_HalfedgePrevID(mesh, ccm_HalfedgeNextID(mesh, h)) = h
           /\ ccm_HalfedgeTwinID(mesh, h) # -1 =>
                 ccm_HalfedgeTwinID(mesh, ccm_HalfedgeTwinID(mesh, h)) = h

\* C14: in a cage that satisfies the half-edge invariants, for a halfedge h
\* whose twin is not -1 the previous rotation of the next rotation of h is
\* h, for a halfedge h whose previous halfedge has a twin the next rotation
\* of the previous rotation of h is h, the next rotation is -1 exactly when
\* the twin of h is -1, and the previous rotation is -1 exactly when the
\* twin of the previous halfedge of h is -1.
C14_CageRotationsInverse ==
    (ret.op = "ccm_VertexHalfedge" /\ HalfedgeInvariants(meshes[ret.mesh])) =>
        LET mesh == meshes[ret.mesh]
            h == ret.halfedgeID
            twinID == ccm_HalfedgeTwinID(mesh, h)
            prevTwinID == ccm_HalfedgeTwinID(mesh, ccm_HalfedgePrevID(mesh, h))
        IN  /\ twinID # -1 => ret.prevOfNext = {h}
            /\ prevTwinID # -1 => ret.nextOfPrev = {h}
            /\ ret.next = -1 <=> twinID = -1
            /\ ret.prev = -1 <=> prevTwinID = -1

\* a halfedge with a twin whose previous halfedge is on the boundary: the
\* forward rotation comes back, the backward rotation stops at -1
C14_Witness ==
    /\ ret.op = "ccm_VertexHalfedge" /\ HalfedgeInvariants(meshes[ret.mesh])
    /\ ret.next >= 0 /\ ret.prevOfNext = {ret.halfedgeID}
    /\ ret.prev = -1 /\ ret.nextOfPrev = {}
    /\ \E h \in 0..(ccm_HalfedgeCount(meshes[ret.mesh]) - 1) :
          ccm_NextVertexHalfedgeID(meshes[ret.mesh], h) = -1

(***************************************************************************)
(* Claims on the counting formulas for large cages (SpecWide).             *)
(***************************************************************************)
\* C15 as stated: with 32-bit wrapping arithmetic, whenever the sum of the
\* per-level counts over levels 1..D fits in a signed 32-bit integer,
\* ccs_CumulativeHalfedgeCountAtDepth and ccs_CumulativeEdgeCountAtDepth
\* return that sum (the products formed before the divisions by 3 and by 6
\* do not wrap).
C15_NoWrapWhenSumFits ==
    (ret.op = "counts" /\ FitsInt32(stored)) =>
        /\ ret.cumulative.H = stored.H
        /\ ret.cumulative.E = stored.E

=============================================================================
